---- MODULE Spec2Model ----
(***************************************************************************)
(* Model of the gym backend's two stateful subsystems:                     *)
(*                                                                         *)
(*  - the WhatsApp session manager (src/whatsappClient.js): the            *)
(*    module-level handle client, the sockets makeWASocket created, the  *)
(*    connection.update reaction and the reconnect timers;                  *)
(*  - the OTP-gated phone change (src/unnamed/part_000, the server):       *)
(*    POST /request_phone_change ("issue") and PUT /update_phone_number    *)
(*    ("validate"), over the Redis key otp:<owner id> and the gym_owner    *)
(*    table (src/unnamed/part_001, the Prisma schema).                     *)
(*  - the membership registration, POST /membership, of the server         *)
(*    (src/unnamed/part_000) and of the older server (src/index.js), over  *)
(*    the customer and membership tables.                                  *)
(*                                                                         *)
(* Node runs the handlers on one thread: a handler runs without            *)
(* interruption from one await to the next, so there is one action per   *)
(* awaited operation: the action is the completion of that operation (its  *)
(* effect on the store) followed by the synchronous code up to the next    *)
(* await.                                                                  *)
(*                                                                         *)
(* Environment, not in the repository: Redis (a key set with EX n is       *)
(* readable while now <= set time + n), Prisma/PostgreSQL (an update that  *)
(* would duplicate a @unique column throws), Baileys (a socket emits       *)
(* connection 'open' at most once, and 'close' once, after which it emits  *)
(* nothing; sendMessage on a socket that is not open rejects; saveCreds of  *)
(* useMultiFileAuthState is asynchronous: it starts a write of the         *)
(* credentials to auth_info_baileys that completes later, and the emitter  *)
(* of creds.update does not wait for it), and the                          *)
(* middlewares in front of the two handlers (authenticateJWT, otpLimiter,  *)
(* express-validator): a request they reject never reaches the handler and *)
(* is not a step of the model. Tokens are signed by /login for rows of     *)
(* gym_owner and no route deletes a row, so every requester has a row.     *)
(***************************************************************************)
EXTENDS Integers, Sequences, FiniteSets, TLC

(* ------------------------------ bounds --------------------------------- *)
\* sockets created in a run of the session manager alone (SpecSession), and
\* the reconnect delays its clock visits
MaxSockets == 5
MaxDelays == 6
\* sockets created in a run with requests (Spec)
OtpSockets == 1
\* requests started in a run, and requests in flight at once
MaxReqs == 3
MaxInFlight == 2
\* rows of gym_owner, and how many of the owners send requests
MaxOwners == 2
MaxRequesters == 1
\* requests started in a run in which every owner sends requests (SpecTwo)
TwoReqs == 4
MaxPhones == 3
MaxCodes == 2
\* the clock visits the first Slack reconnect delays, and the same instant
\* of the next MaxPeriods expiry windows
MaxPeriods == 1
Slack == 1
\* POST /membership: requests started in a run and in flight at once, the
\* gym ids (customers of one owner), the dates (counted in months) and the
\* durations (months) a request may carry, and the sockets created in a run
MaxMemberReqs == 3
MaxMemberInFlight == 2
MaxGyms == 2
MaxDates == 2
MaxDuration == 1
MemberSockets == 1
\* credential rotations in a run, and the sockets created in a run with them
MaxRotations == 2
CredSockets == 2

(* ------------------------- program constants --------------------------- *)
\* const otpExpirySeconds = 10 * 60
otpExpirySeconds == 600
\* setTimeout(..., 3000)
ReconnectDelayMs == 3000
\* Math.floor(100000 + Math.random() * 900000): the smallest code
OtpBase == 100000
\* DisconnectReason.loggedOut (Baileys)
loggedOut == 401
\* DisconnectReason.connectionClosed (Baileys): one of the other reasons
connectionClosed == 428

ReconnectDelay == ReconnectDelayMs \div 1000

\* the texts of the answers and of the errors thrown
ErrInUse == "Phone number already in use by another account"
ErrNoPending == "No pending phone number change request found or OTP expired"
ErrInvalid == "Invalid OTP"
ErrNotInit == "WhatsApp client is not initialized"
ErrSend == "Connection Closed"
ErrUnique == "Unique constraint failed on the fields: (phone_number)"
MsgSent == "OTP sent to your current phone number for verification"
ErrRedis == "The client is closed"
ErrMissing == "Missing required fields"
ErrDatabase == "Can't reach database server"
ErrCustomerUnique == "Unique constraint failed on the fields: (gym_id,gym_owner_id)"
WarnStartDate == "New membership start date is before the current membership end date."

Owners == 1..MaxOwners
Requesters == 1..MaxRequesters
Phones == 1..MaxPhones
Codes == OtpBase..(OtpBase + MaxCodes - 1)
\* the instants (seconds) the clock visits, with requests and without
SessionInstants == {s * ReconnectDelay : s \in 0..MaxDelays}
Instants == {s * ReconnectDelay : s \in 0..Slack}
            \cup {p * otpExpirySeconds + Slack * ReconnectDelay : p \in 1..MaxPeriods}
\* statusCode of lastDisconnect: 0 stands for undefined (no error object)
StatusCodes == {0, loggedOut, connectionClosed}
Gyms == 1..MaxGyms
\* dates, counted in months; 0 stands for null (customer.end_date is optional)
Dates == 1..MaxDates
\* duration of a membership in months; 0 is a value the handler takes as missing
Durations == 0..MaxDuration

None == [otp |-> 0, new_phone_number |-> 0, expireAt |-> 0, gen |-> 0]

VARIABLES
    now,        \* the clock, in seconds
    client,     \* whatsappClient.js let client: 0 is undefined, else a socket
    sockets,    \* the sockets created so far, by creation order: their state
    timers,     \* pending reconnect timers: the instant each is due
    inits,      \* initializeWhatsAppClient() calls awaiting useMultiFileAuthState
    closesNT,   \* history: connection 'close' events with a non-terminal reason
    reconnects, \* history: initializeWhatsAppClient() calls made by a timer
    initsOk,    \* history: initializeWhatsAppClient() calls that returned
    owners,     \* gym_owner.phone_number by gym_owner.id
    redis,      \* the value under otp:<id>, None when the key was never set or deleted
    reqs,       \* the requests in flight, by request number
    nreq,       \* requests started so far
    hist,       \* history, by issue (request number): what became of its record
    credsDisk,  \* auth_info_baileys: the version of the credentials on disk
    credsMem,   \* state.creds of the latest initialize: the version in memory
    saves,      \* saveCreds() calls whose write is pending: the version each writes
    customers,  \* the rows of customer, by id
    memberships,\* the rows of membership, by id
    mreqs,      \* the POST /membership requests in flight, by request number
    nmreq,      \* POST /membership requests started so far
    last        \* history: what the last step did

vars == <<now, client, sockets, timers, inits, closesNT, reconnects, initsOk,
          owners, redis, reqs, nreq, hist, credsDisk, credsMem, saves,
          customers, memberships, mreqs, nmreq, last>>
credVars == <<credsDisk, credsMem, saves>>
sessionVars == <<client, sockets, timers, inits, closesNT, reconnects, initsOk,
                 credVars>>
otpVars == <<owners, redis, reqs, nreq, hist>>
memberVars == <<customers, memberships, mreqs, nmreq>>

\* last: op names the step; id, r the request and its owner; status, error and
\* phone the HTTP answer the step sent (status 0: none sent); rec the OTP record
\* the request holds or wrote; code the submitted or generated code; to the
\* phone number a message was addressed to and sock the socket it was handed
\* to (0: none); clean whether the request ran without another request of the
\* same owner in flight; due the instant a timer was due
\* For POST /membership: gym the gym_id, customer and membership the ids of
\* the rows the request wrote (0: none), custSent and ownerSent whether the
\* customer message and the owner message were sent. text is the code the
\* text of the message handed to sock contains (0: none)
NoEvent == [op |-> "none", id |-> 0, r |-> 0, status |-> 0, error |-> "",
            phone |-> 0, rec |-> None, code |-> 0, to |-> 0, sock |-> 0,
            clean |-> FALSE, due |-> 0, gym |-> 0, customer |-> 0,
            membership |-> 0, custSent |-> FALSE, ownerSent |-> FALSE,
            text |-> 0]

(* --------------------------- session manager --------------------------- *)

Live(s) == s \in {"connecting", "open"}
LiveSockets == {i \in 1..Len(sockets) : Live(sockets[i])}

\* a getWhatsAppClient() without the check
getWhatsAppClient_NoCheck == [ok |-> TRUE, handle |-> client, error |-> ""]

\* getWhatsAppClient(): throws when client is undefined
getWhatsAppClient ==
    IF client = 0 THEN [ok |-> FALSE, handle |-> 0, error |-> ErrNotInit]
    ELSE [ok |-> TRUE, handle |-> client, error |-> ""]

\* a reconnect decision that ignores the reason
shouldReconnect_Always(statusCode) == TRUE

\* lastDisconnect?.error?.output?.statusCode !== DisconnectReason.loggedOut
shouldReconnect(statusCode) == statusCode # loggedOut

\* a close reaction that schedules the reconnect twice
TimersAfterClose_Twice(statusCode) ==
    IF shouldReconnect(statusCode)
    THEN Append(Append(timers, now + ReconnectDelay), now + ReconnectDelay)
    ELSE timers

\* The timers after the 'close' branch of the connection.update reaction ran
TimersAfterClose(statusCode) ==
    IF shouldReconnect(statusCode) THEN Append(timers, now + ReconnectDelay)
    ELSE timers

\* an assignment that keeps a handle once there is one
ClientAfterInit_KeepFirst == IF client = 0 THEN Len(sockets) + 1 ELSE client

\* client = makeWASocket({...}): the handle after the assignment
ClientAfterInit == Len(sockets) + 1

\* a catch that schedules another attempt before it rethrows
TimersAfterInitFailed_Retry == Append(timers, now + ReconnectDelay)

\* catch (err) { console.error(...); throw err; }: the timers after an
\* initializeWhatsAppClient() that failed. The catch schedules nothing, and
\* the timer callback that made the call drops the rejected promise.
TimersAfterInitFailed == timers

\* initializeWhatsAppClient() after await useMultiFileAuthState settles:
\* either the credential load or makeWASocket throws (ok = FALSE: the catch
\* logs and rethrows, client keeps its value), or the socket is created,
\* assigned to client and the two reactions are registered on it.
InitResume(ok, cap) ==
    /\ inits > 0
    /\ inits' = inits - 1
    /\ IF ok
       THEN /\ Len(sockets) < cap
            /\ sockets' = Append(sockets, "connecting")
            /\ client' = ClientAfterInit
            /\ initsOk' = initsOk + 1
            /\ last' = [NoEvent EXCEPT !.op = "init", !.sock = Len(sockets) + 1]
       ELSE /\ UNCHANGED <<sockets, client, initsOk>>
            /\ last' = [NoEvent EXCEPT !.op = "initFailed"]
    /\ timers' = IF ok THEN timers ELSE TimersAfterInitFailed
    /\ credsMem' = IF ok THEN credsDisk ELSE credsMem
    /\ UNCHANGED <<now, closesNT, reconnects, credsDisk, saves>>
    /\ UNCHANGED otpVars
    /\ UNCHANGED memberVars

\* connection.update with connection === 'open' on socket s
ConnOpen(s) ==
    /\ s \in 1..Len(sockets)
    /\ sockets[s] = "connecting"
    /\ sockets' = [sockets EXCEPT ![s] = "open"]
    /\ last' = [NoEvent EXCEPT !.op = "open", !.sock = s]
    /\ UNCHANGED <<now, client, timers, inits, closesNT, reconnects, initsOk>>
    /\ UNCHANGED credVars
    /\ UNCHANGED otpVars
    /\ UNCHANGED memberVars

\* connection.update with connection === 'close' on socket s
ConnClose(s, statusCode) ==
    /\ s \in 1..Len(sockets)
    /\ Live(sockets[s])
    /\ sockets' = [sockets EXCEPT ![s] =
                      IF statusCode = loggedOut THEN "loggedOut" ELSE "closed"]
    /\ timers' = TimersAfterClose(statusCode)
    /\ closesNT' = IF statusCode = loggedOut THEN closesNT ELSE closesNT + 1
    /\ last' = [NoEvent EXCEPT !.op = "close", !.sock = s, !.status = statusCode]
    /\ UNCHANGED <<now, client, inits, reconnects, initsOk>>
    /\ UNCHANGED credVars
    /\ UNCHANGED otpVars
    /\ UNCHANGED memberVars

RemoveAt(seq, i) == SubSeq(seq, 1, i - 1) \o SubSeq(seq, i + 1, Len(seq))

\* the setTimeout callback: () => { initializeWhatsAppClient(); }
TimerFire(i) ==
    /\ i \in 1..Len(timers)
    /\ timers[i] <= now
    /\ timers' = RemoveAt(timers, i)
    /\ inits' = inits + 1
    /\ reconnects' = reconnects + 1
    /\ last' = [NoEvent EXCEPT !.op = "timer", !.due = timers[i]]
    /\ UNCHANGED <<now, client, sockets, closesNT, initsOk>>
    /\ UNCHANGED credVars
    /\ UNCHANGED otpVars
    /\ UNCHANGED memberVars

\* time passes, up to one of the instants
Tick(instants) ==
    /\ \E t \in instants : t > now /\ now' = t
    /\ last' = NoEvent
    /\ UNCHANGED sessionVars
    /\ UNCHANGED otpVars
    /\ UNCHANGED memberVars


(* ------------------------- credential persistence ---------------------- *)

\* creds.update on socket s: the library has updated state.creds in memory
\* and calls the registered reaction, saveCreds, which starts the write
CredsUpdate(s) ==
    /\ s \in LiveSockets
    /\ s = client
    /\ credsMem < MaxRotations
    /\ credsMem' = credsMem + 1
    /\ saves' = Append(saves, credsMem + 1)
    /\ last' = [NoEvent EXCEPT !.op = "credsUpdate", !.sock = s]
    /\ UNCHANGED <<now, client, sockets, timers, inits, closesNT, reconnects,
                   initsOk, credsDisk>>
    /\ UNCHANGED otpVars
    /\ UNCHANGED memberVars

\* the oldest pending write of saveCreds completes
SaveCredsDone ==
    /\ saves # <<>>
    /\ credsDisk' = Head(saves)
    /\ saves' = Tail(saves)
    /\ last' = [NoEvent EXCEPT !.op = "credsSaved"]
    /\ UNCHANGED <<now, client, sockets, timers, inits, closesNT, reconnects,
                   initsOk, credsMem>>
    /\ UNCHANGED otpVars
    /\ UNCHANGED memberVars

(* ------------------------------ OTP flow ------------------------------- *)

\* hist[g], for the issue with request number g: r its owner and otp its code
\* once its record was stored (r = 0 before), sent whether it answered 200,
\* applied how often a validate applied its payload, wrong how often a
\* validate was answered Invalid OTP against its record
NoHist == [r |-> 0, otp |-> 0, sent |-> FALSE, applied |-> 0, wrong |-> 0]

NoReq == [kind |-> "", r |-> 0, arg |-> 0, pc |-> "", cur |-> 0, otp |-> 0,
          rec |-> None, wa |-> 0, clean |-> FALSE]

Active == DOMAIN reqs
ActiveOf(r) == {i \in Active : reqs[i].r = r}

\* a request of owner r starts: it and the requests of r in flight overlap
Started(id, q) ==
    [i \in Active \cup {id} |->
        IF i = id THEN [q EXCEPT !.clean = (ActiveOf(q.r) = {})]
        ELSE IF reqs[i].r = q.r THEN [reqs[i] EXCEPT !.clean = FALSE]
        ELSE reqs[i]]
Retired(id) == [i \in Active \ {id} |-> reqs[i]]
Moved(id, q) == [reqs EXCEPT ![id] = q]

\* a store that never expires a key
RedisGet_NoExpiry(r) == redis[r]

\* redisClient.get(otp:${r}): null (None) once the key's EX time has passed
RedisGet(r) ==
    IF redis[r] # None /\ now <= redis[r].expireAt THEN redis[r] ELSE None

\* a set that keeps a record that is still live (SET ... NX)
RedisSet_KeepLive(r, code, phone, gen) ==
    IF RedisGet(r) # None THEN redis
    ELSE [redis EXCEPT ![r] = [otp |-> code, new_phone_number |-> phone,
                               expireAt |-> now + otpExpirySeconds, gen |-> gen]]

\* a set under one key for all requesters
RedisSet_SharedKey(r, code, phone, gen) ==
    [redis EXCEPT ![1] = [otp |-> code, new_phone_number |-> phone,
                          expireAt |-> now + otpExpirySeconds, gen |-> gen]]

\* redisClient.set(otp:${r}, JSON.stringify({otp, new_phone_number}), {EX})
RedisSet(r, code, phone, gen) ==
    [redis EXCEPT ![r] = [otp |-> code, new_phone_number |-> phone,
                          expireAt |-> now + otpExpirySeconds, gen |-> gen]]

\* a delete that is skipped
RedisDel_Skipped(r) == redis

\* redisClient.del(otp:${r})
RedisDel(r) == [redis EXCEPT ![r] = None]

\* prisma.gym_owner.findFirst({phone_number, id: {not: r}})
existingUser(r, phone) == \E o \in Owners : o # r /\ owners[o] = phone

\* a column without the constraint
UniqueViolation_None(r, phone) == FALSE

\* phone_number String @unique: an update of owner r to a number that is
\* another row's is rejected
UniqueViolation(r, phone) == \E o \in Owners : o # r /\ owners[o] = phone

\* a comparison that lets every code pass
OtpMismatch_Never(stored, submitted) == FALSE

\* otpData.otp !== otp
OtpMismatch(stored, submitted) == stored # submitted

\* a send that never fails
SendOk_Always(handle) == TRUE

\* sendMessage on the handle: resolves on an open socket, rejects otherwise
SendOk(handle) == sockets[handle] = "open"

\* an issue that addresses the code to the new number
currentWaNumber_New(q) == q.arg

\* const currentWaNumber = 91${gymOwner.phone_number}@s.whatsapp.net: the
\* address is identified by the phone number it is built from
currentWaNumber(q) == q.cur

\* const newWaNumber = 91${otpData.new_phone_number}@s.whatsapp.net
newWaNumber(q) == q.rec.new_phone_number

\* express's default error handler, reached by next(error): err.status is
\* not set by any of the thrown errors
NextErrorStatus == 500

\* POST /request_phone_change: findUnique(id) resolves (at most cap requests
\* are started in a run)
IssueFindOwnerN(r, phone, cap) ==
    /\ nreq < cap
    /\ Cardinality(Active) < MaxInFlight
    /\ nreq' = nreq + 1
    /\ reqs' = Started(nreq + 1, [NoReq EXCEPT !.kind = "issue", !.r = r,
                                   !.arg = phone, !.pc = "findExisting",
                                   !.cur = owners[r]])
    /\ last' = [NoEvent EXCEPT !.op = "issueFindOwner", !.id = nreq + 1,
                               !.r = r, !.phone = phone]
    /\ UNCHANGED <<now, owners, redis, hist>>
    /\ UNCHANGED sessionVars
    /\ UNCHANGED memberVars

\* findFirst resolves: the duplicate check, then the code is generated and
\* redisClient.set is called
IssueFindExisting(id, code) ==
    /\ id \in Active
    /\ reqs[id].pc = "findExisting"
    /\ LET q == reqs[id] IN
       IF existingUser(q.r, q.arg)
       THEN /\ reqs' = Retired(id)
            /\ last' = [NoEvent EXCEPT !.op = "issueDone", !.id = id, !.r = q.r,
                           !.status = 400, !.error = ErrInUse, !.clean = q.clean]
       ELSE /\ reqs' = Moved(id, [q EXCEPT !.otp = code, !.pc = "set"])
            /\ last' = [NoEvent EXCEPT !.op = "issueFindExisting", !.id = id,
                           !.r = q.r, !.code = code]
    /\ UNCHANGED <<now, owners, redis, nreq, hist>>
    /\ UNCHANGED sessionVars
    /\ UNCHANGED memberVars

\* redisClient.set resolves, then getWhatsAppClient() and sendMessage to the
\* CURRENT phone number
IssueSet(id) ==
    /\ id \in Active
    /\ reqs[id].pc = "set"
    /\ LET q == reqs[id]
           wa == getWhatsAppClient
           ev == [NoEvent EXCEPT !.op = "issueSet", !.id = id, !.r = q.r,
                     !.phone = q.arg, !.code = q.otp, !.clean = q.clean]
       IN
       /\ redis' = RedisSet(q.r, q.otp, q.arg, id)
       /\ hist' = [hist EXCEPT ![id].r = q.r, ![id].otp = q.otp]
       /\ IF wa.ok
          THEN /\ reqs' = Moved(id, [q EXCEPT !.wa = wa.handle, !.pc = "send"])
               /\ last' = [ev EXCEPT !.to = currentWaNumber(q),
                                     !.sock = wa.handle, !.text = q.otp]
          ELSE /\ reqs' = Retired(id)
               /\ last' = [ev EXCEPT !.status = NextErrorStatus, !.error = wa.error]
    /\ UNCHANGED <<now, owners, nreq>>
    /\ UNCHANGED sessionVars
    /\ UNCHANGED memberVars

\* sendMessage settles: res.json({message}) or next(error)
IssueSend(id) ==
    /\ id \in Active
    /\ reqs[id].pc = "send"
    /\ reqs[id].kind = "issue"
    /\ LET q == reqs[id]
           ev == [NoEvent EXCEPT !.op = "issueDone", !.id = id, !.r = q.r,
                     !.code = q.otp, !.clean = q.clean]
       IN
       /\ reqs' = Retired(id)
       /\ hist' = [hist EXCEPT ![id].sent = SendOk(q.wa)]
       /\ last' = IF SendOk(q.wa)
                  THEN [ev EXCEPT !.status = 200, !.error = MsgSent]
                  ELSE [ev EXCEPT !.status = NextErrorStatus, !.error = ErrSend]
    /\ UNCHANGED <<now, owners, redis, nreq>>
    /\ UNCHANGED sessionVars
    /\ UNCHANGED memberVars

IssueFindOwner(r, phone) == IssueFindOwnerN(r, phone, MaxReqs)

\* PUT /update_phone_number: redisClient.get resolves, then the checks (at
\* most cap requests are started in a run)
ValidateGetN(r, code, cap) ==
    /\ nreq < cap
    /\ Cardinality(Active) < MaxInFlight
    /\ nreq' = nreq + 1
    /\ LET got == RedisGet(r)
           ev == [NoEvent EXCEPT !.op = "validateGet", !.id = nreq + 1, !.r = r,
                     !.rec = got, !.code = code, !.clean = (ActiveOf(r) = {})]
       IN
       IF got = None
       THEN /\ reqs' = reqs
            /\ hist' = hist
            /\ last' = [ev EXCEPT !.status = 400, !.error = ErrNoPending]
       ELSE IF OtpMismatch(got.otp, code)
       THEN /\ reqs' = reqs
            /\ hist' = [hist EXCEPT ![got.gen].wrong = @ + 1]
            /\ last' = [ev EXCEPT !.status = 400, !.error = ErrInvalid]
       ELSE /\ hist' = hist
            /\ reqs' = Started(nreq + 1, [NoReq EXCEPT !.kind = "validate",
                                   !.r = r, !.arg = code, !.pc = "update",
                                   !.rec = got])
            /\ last' = ev
    /\ UNCHANGED <<now, owners, redis>>
    /\ UNCHANGED sessionVars
    /\ UNCHANGED memberVars

ValidateGet(r, code) == ValidateGetN(r, code, MaxReqs)

\* prisma.gym_owner.update resolves, or rejects on the @unique phone_number
ValidateUpdate(id) ==
    /\ id \in Active
    /\ reqs[id].pc = "update"
    /\ LET q == reqs[id]
           ev == [NoEvent EXCEPT !.op = "validateUpdate", !.id = id, !.r = q.r,
                     !.rec = q.rec, !.code = q.arg, !.clean = q.clean]
       IN
       IF UniqueViolation(q.r, q.rec.new_phone_number)
       THEN /\ reqs' = Retired(id)
            /\ last' = [ev EXCEPT !.status = NextErrorStatus, !.error = ErrUnique]
            /\ UNCHANGED <<owners, hist>>
       ELSE /\ owners' = [owners EXCEPT ![q.r] = q.rec.new_phone_number]
            /\ hist' = [hist EXCEPT ![q.rec.gen].applied = @ + 1]
            /\ reqs' = Moved(id, [q EXCEPT !.cur = q.rec.new_phone_number,
                                           !.pc = "del"])
            /\ last' = ev
    /\ UNCHANGED <<now, redis, nreq>>
    /\ UNCHANGED sessionVars
    /\ UNCHANGED memberVars

\* redisClient.del resolves, then getWhatsAppClient() and sendMessage to the
\* new number
ValidateDel(id) ==
    /\ id \in Active
    /\ reqs[id].pc = "del"
    /\ LET q == reqs[id]
           wa == getWhatsAppClient
           ev == [NoEvent EXCEPT !.op = "validateDel", !.id = id, !.r = q.r,
                     !.rec = q.rec, !.code = q.arg, !.clean = q.clean]
       IN
       /\ redis' = RedisDel(q.r)
       /\ IF wa.ok
          THEN /\ reqs' = Moved(id, [q EXCEPT !.wa = wa.handle, !.pc = "send"])
               /\ last' = [ev EXCEPT !.to = newWaNumber(q),
                                     !.sock = wa.handle]
          ELSE /\ reqs' = Retired(id)
               /\ last' = [ev EXCEPT !.status = NextErrorStatus, !.error = wa.error]
    /\ UNCHANGED <<now, owners, nreq, hist>>
    /\ UNCHANGED sessionVars
    /\ UNCHANGED memberVars

\* redisClient.del rejects (the store is unreachable): the catch passes the
\* error to next(error); nothing is undone
ValidateDelRejects(id) ==
    /\ id \in Active
    /\ reqs[id].pc = "del"
    /\ LET q == reqs[id] IN
       /\ reqs' = Retired(id)
       /\ last' = [NoEvent EXCEPT !.op = "validateDelFailed", !.id = id,
                      !.r = q.r, !.rec = q.rec, !.code = q.arg,
                      !.clean = q.clean, !.status = NextErrorStatus,
                      !.error = ErrRedis]
    /\ UNCHANGED <<now, owners, redis, nreq, hist>>
    /\ UNCHANGED sessionVars
    /\ UNCHANGED memberVars

\* sendMessage settles: res.json(updatedGymOwner) or next(error)
ValidateSend(id) ==
    /\ id \in Active
    /\ reqs[id].pc = "send"
    /\ reqs[id].kind = "validate"
    /\ LET q == reqs[id]
           ev == [NoEvent EXCEPT !.op = "validateDone", !.id = id, !.r = q.r,
                     !.rec = q.rec, !.code = q.arg, !.clean = q.clean]
       IN
       /\ reqs' = Retired(id)
       /\ last' = IF SendOk(q.wa)
                  THEN [ev EXCEPT !.status = 200, !.phone = q.cur]
                  ELSE [ev EXCEPT !.status = NextErrorStatus, !.error = ErrSend]
    /\ UNCHANGED <<now, owners, redis, nreq, hist>>
    /\ UNCHANGED sessionVars
    /\ UNCHANGED memberVars

(* --------------------------- POST /membership -------------------------- *)

\* a request in flight: r the owner (req.user.id), gym, phone, start and
\* duration its body, pc the await it is suspended at, customer the id of the
\* row found or written (0: null), end the new end_date, membership the id of
\* the transaction created, wa the handle it got, to the owner's number read
NoMReq == [src |-> "", r |-> 0, gym |-> 0, phone |-> 0, start |-> 0,
           duration |-> 0, pc |-> "", customer |-> 0, end |-> 0,
           membership |-> 0, wa |-> 0, to |-> 0]

\* the customer table at start: one customer of owner 1 whose membership ran
\* out (status false, an end_date), as in the test of the update path
InitCustomers ==
    << [gym_owner_id |-> 1, gym_id |-> 1, phone_number |-> MaxPhones,
        status |-> FALSE, end_date |-> MaxDates] >>

MActive == DOMAIN mreqs
MStarted(id, q) == [i \in MActive \cup {id} |-> IF i = id THEN q ELSE mreqs[i]]
MRetired(id) == [i \in MActive \ {id} |-> mreqs[i]]
MMoved(id, q) == [mreqs EXCEPT ![id] = q]

\* prisma.customer.findFirst({gym_owner_id, gym_id}): the id of the row, 0 for null
findFirstCustomer(o, g) ==
    IF \E i \in 1..Len(customers) :
           customers[i].gym_owner_id = o /\ customers[i].gym_id = g
    THEN CHOOSE i \in 1..Len(customers) :
           customers[i].gym_owner_id = o /\ customers[i].gym_id = g
    ELSE 0

\* new Date(start_date).setMonth(getMonth() + Number(duration)), in months
newEndDate(start, duration) == start + duration

\* !gym_id || !phone_number || ... || !duration || !start_date || ...: of the
\* fields the model varies, duration 0 is the falsy one
MissingFields(duration) == duration = 0

\* prisma.customer.create / update resolves or rejects: create rejects on
\* @@unique([gym_id, gym_owner_id]) when the row appeared meanwhile
CustomerWriteFails(q) == q.customer = 0 /\ findFirstCustomer(q.r, q.gym) # 0

CustomersAfterWrite(q) ==
    IF q.customer = 0
    THEN Append(customers, [gym_owner_id |-> q.r, gym_id |-> q.gym,
                            phone_number |-> q.phone, status |-> TRUE,
                            end_date |-> q.end])
    ELSE [customers EXCEPT ![q.customer].status = TRUE,
                           ![q.customer].end_date = q.end]

\* a messaging error that reaches the outer catch
WhatsappErrorStatus_Propagated == NextErrorStatus

\* catch (whatsappError) { console.error(...) } and then
\* res.json({ success: true, membership }): the status after a messaging error
WhatsappErrorStatus == 200

\* POST /membership (server): the field checks, then findFirst resolves, the
\* dates are computed and customer.create or customer.update is called
MembershipFind(r, g, phone, start, duration) ==
    /\ nmreq < MaxMemberReqs
    /\ Cardinality(MActive) < MaxMemberInFlight
    /\ nmreq' = nmreq + 1
    /\ LET ev == [NoEvent EXCEPT !.op = "membershipFind", !.id = nmreq + 1,
                     !.r = r, !.gym = g, !.phone = phone,
                     !.customer = findFirstCustomer(r, g)]
       IN
       IF MissingFields(duration)
       THEN /\ mreqs' = mreqs
            /\ last' = [ev EXCEPT !.status = 400, !.error = ErrMissing,
                                  !.customer = 0]
       ELSE /\ mreqs' = MStarted(nmreq + 1,
                           [NoMReq EXCEPT !.src = "server", !.r = r, !.gym = g,
                               !.phone = phone, !.start = start,
                               !.duration = duration, !.pc = "write",
                               !.customer = findFirstCustomer(r, g),
                               !.end = newEndDate(start, duration)])
            /\ last' = ev
    /\ UNCHANGED <<now, customers, memberships>>
    /\ UNCHANGED sessionVars
    /\ UNCHANGED otpVars

\* customer.create / customer.update settles, then membership.create is called
MembershipWrite(id) ==
    /\ id \in MActive
    /\ mreqs[id].pc = "write"
    /\ mreqs[id].src = "server"
    /\ LET q == mreqs[id]
           ev == [NoEvent EXCEPT !.op = "membershipWrite", !.id = id, !.r = q.r,
                     !.gym = q.gym, !.phone = q.phone]
       IN
       IF CustomerWriteFails(q)
       THEN /\ mreqs' = MRetired(id)
            /\ customers' = customers
            /\ last' = [ev EXCEPT !.status = NextErrorStatus,
                                  !.error = ErrCustomerUnique]
       ELSE /\ customers' = CustomersAfterWrite(q)
            /\ LET c == IF q.customer = 0 THEN Len(customers) + 1 ELSE q.customer
               IN /\ mreqs' = MMoved(id, [q EXCEPT !.customer = c,
                                                   !.pc = "membership"])
                  /\ last' = [ev EXCEPT !.customer = c]
    /\ UNCHANGED <<now, memberships, nmreq>>
    /\ UNCHANGED sessionVars
    /\ UNCHANGED otpVars

\* membership.create resolves, then gym_owner.findUnique is called
MembershipCreate(id) ==
    /\ id \in MActive
    /\ mreqs[id].pc = "membership"
    /\ mreqs[id].src = "server"
    /\ LET q == mreqs[id] IN
       /\ memberships' = Append(memberships,
                             [customer_id |-> q.customer, start_date |-> q.start,
                              duration |-> q.duration])
       /\ mreqs' = MMoved(id, [q EXCEPT !.membership = Len(memberships) + 1,
                                        !.pc = "owner"])
       /\ last' = [NoEvent EXCEPT !.op = "membershipCreate", !.id = id,
                      !.r = q.r, !.gym = q.gym, !.customer = q.customer,
                      !.membership = Len(memberships) + 1]
    /\ UNCHANGED <<now, customers, nmreq>>
    /\ UNCHANGED sessionVars
    /\ UNCHANGED otpVars

\* catch (error) { res.status(500).json({ error: error.message }) }
OuterCatchStatus == 500

\* a catch that undoes the customer write of the request
CustomersAfterCreateFailed_RolledBack(q) ==
    [customers EXCEPT ![q.customer].status = FALSE]

\* the customer table after membership.create rejected: the customer write
\* and the membership write are two statements with no $transaction around
\* them, and the catch only answers
CustomersAfterCreateFailed(q) == customers

\* membership.create rejects (the database refuses the row or cannot be
\* reached): the outer catch answers 500
MembershipCreateRejects(id) ==
    /\ id \in MActive
    /\ mreqs[id].pc = "membership"
    /\ mreqs[id].src = "server"
    /\ LET q == mreqs[id] IN
       /\ customers' = CustomersAfterCreateFailed(q)
       /\ mreqs' = MRetired(id)
       /\ last' = [NoEvent EXCEPT !.op = "membershipCreateFailed", !.id = id,
                      !.r = q.r, !.gym = q.gym, !.customer = q.customer,
                      !.status = OuterCatchStatus, !.error = ErrDatabase]
    /\ UNCHANGED <<now, memberships, nmreq>>
    /\ UNCHANGED sessionVars
    /\ UNCHANGED otpVars

\* gym_owner.findUnique resolves; inside the inner try: getWhatsAppClient(),
\* then sendMessage to the customer is called; a throw goes to the inner
\* catch and on to res.json({ success: true, membership })
MembershipOwner(id) ==
    /\ id \in MActive
    /\ mreqs[id].pc = "owner"
    /\ LET q == mreqs[id]
           wa == getWhatsAppClient
           ev == [NoEvent EXCEPT !.op = "membershipOwner", !.id = id, !.r = q.r,
                     !.gym = q.gym, !.customer = q.customer,
                     !.membership = q.membership]
       IN
       IF wa.ok
       THEN /\ mreqs' = MMoved(id, [q EXCEPT !.wa = wa.handle, !.to = owners[q.r],
                                             !.pc = "custSend"])
            /\ last' = [ev EXCEPT !.to = q.phone, !.sock = wa.handle]
       ELSE /\ mreqs' = MRetired(id)
            /\ last' = [ev EXCEPT !.status = WhatsappErrorStatus,
                                  !.error = wa.error]
    /\ UNCHANGED <<now, customers, memberships, nmreq>>
    /\ UNCHANGED sessionVars
    /\ UNCHANGED otpVars

\* sendMessage to the customer settles: on success sendMessage to the owner
\* is called, on failure the inner catch runs and the answer is sent
MembershipCustomerSend(id) ==
    /\ id \in MActive
    /\ mreqs[id].pc = "custSend"
    /\ LET q == mreqs[id]
           ev == [NoEvent EXCEPT !.op = "membershipCustomerSend", !.id = id,
                     !.r = q.r, !.gym = q.gym, !.customer = q.customer,
                     !.membership = q.membership]
       IN
       IF SendOk(q.wa)
       THEN /\ mreqs' = MMoved(id, [q EXCEPT !.pc = "ownerSend"])
            /\ last' = [ev EXCEPT !.custSent = TRUE, !.to = q.to, !.sock = q.wa]
       ELSE /\ mreqs' = MRetired(id)
            /\ last' = [ev EXCEPT !.status = WhatsappErrorStatus,
                                  !.error = ErrSend]
    /\ UNCHANGED <<now, customers, memberships, nmreq>>
    /\ UNCHANGED sessionVars
    /\ UNCHANGED otpVars

\* sendMessage to the owner settles, then res.json({ success: true, membership })
MembershipOwnerSend(id) ==
    /\ id \in MActive
    /\ mreqs[id].pc = "ownerSend"
    /\ LET q == mreqs[id]
           ev == [NoEvent EXCEPT !.op = "membershipOwnerSend", !.id = id,
                     !.r = q.r, !.gym = q.gym, !.customer = q.customer,
                     !.membership = q.membership, !.custSent = TRUE]
       IN
       /\ mreqs' = MRetired(id)
       /\ last' = IF SendOk(q.wa)
                  THEN [ev EXCEPT !.status = 200, !.ownerSent = TRUE]
                  ELSE [ev EXCEPT !.status = WhatsappErrorStatus,
                                  !.error = ErrSend]
    /\ UNCHANGED <<now, customers, memberships, nmreq>>
    /\ UNCHANGED sessionVars
    /\ UNCHANGED otpVars

(* ----------------------- POST /membership, index.js -------------------- *)

\* customer && customer.end_date && newStartDate < new Date(customer.end_date)
StartsBeforeEnd(c, start) ==
    /\ c # 0
    /\ customers[c].end_date # 0
    /\ start < customers[c].end_date

\* POST /membership (index.js): the field checks, then findFirst resolves,
\* the dates are computed and compared, and customer.create or
\* customer.update is called
IndexMembershipFind(r, g, phone, start, duration) ==
    /\ nmreq < MaxMemberReqs
    /\ Cardinality(MActive) < MaxMemberInFlight
    /\ nmreq' = nmreq + 1
    /\ LET c == findFirstCustomer(r, g)
           ev == [NoEvent EXCEPT !.op = "indexMembershipFind", !.id = nmreq + 1,
                     !.r = r, !.gym = g, !.phone = phone, !.customer = c]
       IN
       IF MissingFields(duration)
       THEN /\ mreqs' = mreqs
            /\ last' = [ev EXCEPT !.status = 400, !.error = ErrMissing,
                                  !.customer = 0]
       ELSE IF StartsBeforeEnd(c, start)
       THEN /\ mreqs' = mreqs
            /\ last' = [ev EXCEPT !.status = 400, !.error = WarnStartDate]
       ELSE /\ mreqs' = MStarted(nmreq + 1,
                           [NoMReq EXCEPT !.src = "index", !.r = r, !.gym = g,
                               !.phone = phone, !.start = start,
                               !.duration = duration, !.pc = "write",
                               !.customer = c,
                               !.end = newEndDate(start, duration)])
            /\ last' = ev
    /\ UNCHANGED <<now, customers, memberships>>
    /\ UNCHANGED sessionVars
    /\ UNCHANGED otpVars

\* customer.create / customer.update settles, then membership.create is called
IndexMembershipWrite(id) ==
    /\ id \in MActive
    /\ mreqs[id].pc = "write"
    /\ mreqs[id].src = "index"
    /\ LET q == mreqs[id]
           ev == [NoEvent EXCEPT !.op = "indexMembershipWrite", !.id = id,
                     !.r = q.r, !.gym = q.gym, !.phone = q.phone]
       IN
       IF CustomerWriteFails(q)
       THEN /\ mreqs' = MRetired(id)
            /\ customers' = customers
            /\ last' = [ev EXCEPT !.status = 500, !.error = ErrCustomerUnique]
       ELSE /\ customers' = CustomersAfterWrite(q)
            /\ LET c == IF q.customer = 0 THEN Len(customers) + 1 ELSE q.customer
               IN /\ mreqs' = MMoved(id, [q EXCEPT !.customer = c,
                                                   !.pc = "membership"])
                  /\ last' = [ev EXCEPT !.customer = c]
    /\ UNCHANGED <<now, memberships, nmreq>>
    /\ UNCHANGED sessionVars
    /\ UNCHANGED otpVars

\* membership.create resolves, then res.json({ success: true, membership })
IndexMembershipCreate(id) ==
    /\ id \in MActive
    /\ mreqs[id].pc = "membership"
    /\ mreqs[id].src = "index"
    /\ LET q == mreqs[id] IN
       /\ memberships' = Append(memberships,
                             [customer_id |-> q.customer, start_date |-> q.start,
                              duration |-> q.duration])
       /\ mreqs' = MRetired(id)
       /\ last' = [NoEvent EXCEPT !.op = "indexMembershipCreate", !.id = id,
                      !.r = q.r, !.gym = q.gym, !.customer = q.customer,
                      !.membership = Len(memberships) + 1, !.status = 200]
    /\ UNCHANGED <<now, customers, nmreq>>
    /\ UNCHANGED sessionVars
    /\ UNCHANGED otpVars

(* ------------------------------- system -------------------------------- *)

Init ==
    /\ now = 0
    /\ client = 0
    /\ sockets = <<>>
    /\ timers = <<>>
    /\ inits = 1
    /\ closesNT = 0
    /\ reconnects = 0
    /\ initsOk = 0
    /\ owners = [r \in Owners |-> r]
    /\ redis = [r \in Owners |-> None]
    /\ reqs = [i \in {} |-> NoReq]
    /\ nreq = 0
    /\ hist = [g \in 1..(IF TwoReqs > MaxReqs THEN TwoReqs ELSE MaxReqs) |-> NoHist]
    /\ credsDisk = 0
    /\ credsMem = 0
    /\ saves = <<>>
    /\ customers = InitCustomers
    /\ memberships = <<>>
    /\ mreqs = [i \in {} |-> NoMReq]
    /\ nmreq = 0
    /\ last = NoEvent

SessionNext(cap) ==
    \/ \E ok \in BOOLEAN : InitResume(ok, cap)
    \/ \E s \in 1..cap : ConnOpen(s)
    \/ \E s \in 1..cap, c \in StatusCodes : ConnClose(s, c)
    \/ \E i \in 1..cap : TimerFire(i)

OtpNext(requesters) ==
    \/ \E r \in requesters, p \in Phones : IssueFindOwner(r, p)
    \/ \E id \in 1..MaxReqs, c \in Codes : IssueFindExisting(id, c)
    \/ \E id \in 1..MaxReqs : IssueSet(id)
    \/ \E id \in 1..MaxReqs : IssueSend(id)
    \/ \E r \in requesters, c \in Codes : ValidateGet(r, c)
    \/ \E id \in 1..MaxReqs : ValidateUpdate(id)
    \/ \E id \in 1..MaxReqs : ValidateDel(id)
    \/ \E id \in 1..MaxReqs : ValidateSend(id)

\* the same routes over a run of cap requests
OtpNextN(requesters, cap) ==
    \/ \E r \in requesters, p \in Phones : IssueFindOwnerN(r, p, cap)
    \/ \E id \in 1..cap, c \in Codes : IssueFindExisting(id, c)
    \/ \E id \in 1..cap : IssueSet(id)
    \/ \E id \in 1..cap : IssueSend(id)
    \/ \E r \in requesters, c \in Codes : ValidateGetN(r, c, cap)
    \/ \E id \in 1..cap : ValidateUpdate(id)
    \/ \E id \in 1..cap : ValidateDel(id)
    \/ \E id \in 1..cap : ValidateSend(id)

\* the server: the session manager, the clock and the two OTP routes
Next == SessionNext(OtpSockets) \/ Tick(Instants) \/ OtpNext(Requesters)
Spec == Init /\ [][Next]_vars

\* the session manager alone, over more reconnects
NextSession == SessionNext(MaxSockets) \/ Tick(SessionInstants)
SpecSession == Init /\ [][NextSession]_vars

MemberNext(requesters) ==
    \/ \E r \in requesters, g \in Gyms, d \in Dates, n \in Durations :
          MembershipFind(r, g, g, d, n)
    \/ \E id \in 1..MaxMemberReqs : MembershipWrite(id)
    \/ \E id \in 1..MaxMemberReqs : MembershipCreate(id)
    \/ \E id \in 1..MaxMemberReqs : MembershipOwner(id)
    \/ \E id \in 1..MaxMemberReqs : MembershipCustomerSend(id)
    \/ \E id \in 1..MaxMemberReqs : MembershipOwnerSend(id)

\* the server with a key-value store whose delete can fail
NextFaults == Next \/ \E id \in 1..MaxReqs : ValidateDelRejects(id)
SpecFaults == Init /\ [][NextFaults]_vars

\* the two OTP routes used by every owner
NextTwo ==
    \/ \E ok \in BOOLEAN : InitResume(ok, OtpSockets)
    \/ \E s \in 1..OtpSockets : ConnOpen(s)
    \/ OtpNextN(Owners, TwoReqs)
SpecTwo == Init /\ [][NextTwo]_vars

\* the session manager under fair scheduling: time passes, a timer that is
\* due fires, an awaited credential load settles (the event loop runs them);
\* nothing is assumed of the transport's events
FairSession ==
    /\ WF_vars(Tick(SessionInstants))
    /\ WF_vars(\E i \in 1..MaxSockets : TimerFire(i))
    /\ WF_vars(\E ok \in BOOLEAN : InitResume(ok, MaxSockets))
SpecLive == Init /\ [][NextSession]_vars /\ FairSession

\* the session manager with credential rotation
NextCreds ==
    \/ SessionNext(CredSockets)
    \/ Tick(Instants)
    \/ \E s \in 1..CredSockets : CredsUpdate(s)
    \/ SaveCredsDone
SpecCreds == Init /\ [][NextCreds]_vars

\* the older server of index.js: it has no session manager
NextIndex ==
    \/ \E r \in Requesters, g \in Gyms, d \in Dates, n \in Durations :
          IndexMembershipFind(r, g, g, d, n)
    \/ \E id \in 1..MaxMemberReqs : IndexMembershipWrite(id)
    \/ \E id \in 1..MaxMemberReqs : IndexMembershipCreate(id)
SpecIndex == Init /\ [][NextIndex]_vars

\* the server's membership registration, with the session manager and the clock
NextMember == SessionNext(MemberSockets) \/ Tick(Instants) \/ MemberNext(Requesters)
SpecMember == Init /\ [][NextMember]_vars

\* the same with a database that can refuse or fail membership.create
NextMemberFaults ==
    NextMember \/ \E id \in 1..MaxMemberReqs : MembershipCreateRejects(id)
SpecMemberFaults == Init /\ [][NextMemberFaults]_vars

(* ------------------------- session manager claims ---------------------- *)

C7_NoReconnectAfterLogout ==
    \A s \in 1..Len(sockets) :
        sockets[s] = "loggedOut" =>
            /\ timers = <<>>
            /\ inits = 0
            /\ LiveSockets = {}
            /\ getWhatsAppClient.ok
            /\ getWhatsAppClient.handle = s

C7_Witness ==
    /\ \E s \in 1..Len(sockets) : sockets[s] = "loggedOut"
    /\ Len(sockets) >= 2
    /\ last.op = "none"
    /\ now > ReconnectDelay

\* C8 as claimed: in every reachable state exactly one socket is live
\* (connecting or open), and it is the one the module-level handle references.
C8_ExactlyOneLive ==
    /\ Cardinality(LiveSockets) = 1
    /\ LiveSockets = {client}

\* C8 as amended: in every reachable state at most one socket is live, and a
\* live socket is the one the module-level handle references (there is none
\* before the first initializeWhatsAppClient() returns, between a close and
\* the reconnect, after a failed reconnect and after a logout).
C8_AtMostOneLive ==
    /\ Cardinality(LiveSockets) <= 1
    /\ LiveSockets \subseteq {client}

C8_Witness ==
    /\ Len(sockets) >= 3
    /\ LiveSockets = {client}
    /\ sockets[client] = "open"

\* C9: getWhatsAppClient() throws 'WhatsApp client is not initialized' in
\* every state in which no initializeWhatsAppClient() call has returned, and
\* otherwise returns the socket created by the most recent call that created
\* one.
C9_GetClient ==
    /\ initsOk = 0 =>
          /\ ~getWhatsAppClient.ok
          /\ getWhatsAppClient.error = ErrNotInit
    /\ initsOk > 0 =>
          /\ getWhatsAppClient.ok
          /\ getWhatsAppClient.handle = Len(sockets)
          /\ Len(sockets) = initsOk

C9_Witness ==
    /\ initsOk >= 2
    /\ last.op = "initFailed"
    /\ getWhatsAppClient.handle = Len(sockets)
(* ------------------------------ OTP claims ----------------------------- *)

\* the steps that end a validate which matched a record
ValidateEnded(e) ==
    /\ e.op \in {"validateUpdate", "validateDel", "validateDone"}
    /\ e.status # 0

\* C1 as claimed: a validate with the correct code, run with no other request
\* of that owner in flight against the record of an issue that was answered
\* 200, always ends with the contact set to the pending number, the OTP
\* record deleted and the answer 200 carrying the updated owner record.
C1_AsClaimed ==
    (ValidateEnded(last) /\ last.clean /\ hist[last.rec.gen].sent) =>
        /\ last.status = 200
        /\ last.phone = last.rec.new_phone_number
        /\ owners[last.r] = last.rec.new_phone_number
        /\ redis[last.r] = None

\* C1 as amended, step by step of PUT /update_phone_number. A validate that
\* finds the stored record live and its code equal to the submitted one goes
\* on with that record; its update sets the contact to the record's number,
\* unless that number is another owner's by then (the update throws: answer
\* 500, nothing changed); its delete removes the OTP record; the answer is
\* 200 with the updated owner record exactly when the confirmation was handed
\* to an open socket, and 500 otherwise (no handle, or the send rejected),
\* the contact being changed and the record deleted all the same when no
\* other request of that owner ran meanwhile. A validate that finds no live
\* record is answered 400 'No pending ... or OTP expired' and changes
\* nothing.
C1_Step ==
    LET e == last'
        p == e.rec.new_phone_number
    IN
    /\ (e.op = "validateGet" /\ RedisGet(e.r) = None) =>
          /\ e.status = 400
          /\ e.error = ErrNoPending
          /\ UNCHANGED <<owners, redis, reqs, hist>>
    /\ (e.op = "validateGet" /\ RedisGet(e.r) # None /\ RedisGet(e.r).otp = e.code) =>
          /\ e.status = 0
          /\ e.id \in DOMAIN reqs'
          /\ reqs'[e.id].rec = redis[e.r]
    /\ (e.op = "validateUpdate" /\ ~existingUser(e.r, p)) =>
          /\ e.status = 0
          /\ owners' = [owners EXCEPT ![e.r] = p]
          /\ redis' = redis
    /\ (e.op = "validateUpdate" /\ existingUser(e.r, p)) =>
          /\ e.status = 500
          /\ e.id \notin DOMAIN reqs'
          /\ UNCHANGED <<owners, redis>>
    /\ e.op = "validateDel" =>
          /\ redis'[e.r] = None
          /\ owners' = owners
          /\ e.clean => owners[e.r] = p
          /\ IF client = 0 THEN e.status = 500 /\ e.error = ErrNotInit
                           ELSE e.status = 0 /\ e.id \in DOMAIN reqs'
    /\ e.op = "validateDone" =>
          /\ UNCHANGED <<owners, redis>>
          /\ e.clean => (owners[e.r] = p /\ redis[e.r] = None)
          /\ IF sockets[reqs[e.id].wa] = "open"
             THEN e.status = 200 /\ e.phone = p
             ELSE e.status = 500
          /\ e.id \notin DOMAIN reqs'

C1_IssueThenValidate == [][C1_Step]_vars

\* a second validate with the code of a record that was issued with answer
\* 200 and applied once finds no pending request
C1_Witness ==
    /\ last.op = "validateGet"
    /\ last.error = ErrNoPending
    /\ redis[last.r] = None
    /\ \E g \in DOMAIN hist :
          /\ hist[g].r = last.r
          /\ hist[g].otp = last.code
          /\ hist[g].sent
          /\ hist[g].applied = 1
          /\ owners[last.r] # last.r

\* C2 as claimed: the payload of one stored OTP record, issued with answer
\* 200, is applied at most once, whatever the interleaving of the validate
\* requests (a validate is answered 200 only after it applied the payload,
\* so at most one validate succeeds then).
C2_SingleUse == \A g \in DOMAIN hist : hist[g].sent => hist[g].applied <= 1

\* C3: a validate with a code that differs from the stored one, against a
\* live record, is answered 400 'Invalid OTP' and changes neither the record
\* nor the contact nor any request in flight; a validate with the stored code
\* then still goes on to apply the record, however many wrong attempts the
\* record has seen.
C3_Step ==
    LET e == last'
        p == e.rec.new_phone_number
    IN
    /\ (e.op = "validateGet" /\ RedisGet(e.r) # None /\ RedisGet(e.r).otp # e.code) =>
          /\ e.status = 400
          /\ e.error = ErrInvalid
          /\ UNCHANGED <<owners, redis, reqs, now>>
          /\ UNCHANGED sessionVars
    /\ (e.op = "validateGet" /\ RedisGet(e.r) # None /\ RedisGet(e.r).otp = e.code) =>
          /\ e.status = 0
          /\ e.id \in DOMAIN reqs'
          /\ reqs'[e.id].pc = "update"
          /\ reqs'[e.id].rec = redis[e.r]
    /\ (e.op = "validateUpdate" /\ hist[e.rec.gen].wrong > 0
            /\ ~existingUser(e.r, p)) =>
          owners'[e.r] = p

C4_Replace ==
    /\ last.op = "issueSet" =>
          redis[last.r] = [otp |-> last.code, new_phone_number |-> last.phone,
                           expireAt |-> now + otpExpirySeconds, gen |-> last.id]
    /\ (last.op = "validateGet" /\ RedisGet(last.r) # None
            /\ last.code # RedisGet(last.r).otp) =>
          /\ last.status = 400
          /\ last.error = ErrInvalid
    /\ (last.op = "validateGet" /\ last.status = 0) =>
          /\ last.rec = redis[last.r]
          /\ last.code = redis[last.r].otp
    /\ (last.op = "validateUpdate" /\ last.status = 0) =>
          /\ owners[last.r] = last.rec.new_phone_number
          /\ last.rec.otp = last.code

\* the code of a replaced record is refused while the replacing record is live
C4_Witness ==
    /\ last.op = "validateGet"
    /\ last.error = ErrInvalid
    /\ \E g \in DOMAIN hist :
          /\ hist[g].r = last.r
          /\ hist[g].otp = last.code
          /\ hist[g].applied = 0
          /\ redis[last.r].gen > g
          /\ redis[last.r].new_phone_number # owners[last.r]

\* C5: a record stored at instant T expires at T + otpExpirySeconds; a
\* validate that reads the store after that instant is answered 400 'No
\* pending ... or OTP expired' whatever code it submits, starts no update and
\* changes no contact; a validate goes on only with a record that is live
\* when it is read.
C5_Step ==
    LET e == last' IN
    /\ e.op = "issueSet" => redis'[e.r].expireAt = now + otpExpirySeconds
    /\ (e.op = "validateGet" /\ redis[e.r] # None /\ now > redis[e.r].expireAt) =>
          /\ e.status = 400
          /\ e.error = ErrNoPending
          /\ e.id \notin DOMAIN reqs'
          /\ UNCHANGED <<owners, redis, reqs>>
    /\ (e.op = "validateGet" /\ e.status = 0) =>
          /\ redis[e.r] # None
          /\ now <= redis[e.r].expireAt

C5_Expiry == [][C5_Step]_vars

\* the correct code, after the expiry
C5_Witness ==
    /\ last.op = "validateGet"
    /\ last.error = ErrNoPending
    /\ redis[last.r] # None
    /\ redis[last.r].otp = last.code
    /\ now > redis[last.r].expireAt

\* C10 as claimed: a message is handed to the connection (sendMessage is
\* called on the handle) only while that socket is open.
C10_SendOnlyWhenOpen ==
    (last.op \in {"issueSet", "validateDel"} /\ last.sock # 0) =>
        sockets[last.sock] = "open"
(* --------------------------- membership claims ------------------------- *)

\* the steps of POST /membership inside the messaging block (the inner try)
MessagingStep(e) ==
    e.op \in {"membershipOwner", "membershipCustomerSend", "membershipOwnerSend"}

\* C11: once POST /membership has written the customer and the membership
\* transaction, no messaging failure fails it: whether getWhatsAppClient()
\* throws or a send is rejected, the answer is 200 { success: true,
\* membership } carrying the transaction created, and the customer row (active)
\* and the transaction row are in the tables.
C11_MessagingNeverFails ==
    (MessagingStep(last) /\ last.status # 0) =>
        /\ last.status = 200
        /\ last.membership \in 1..Len(memberships)
        /\ memberships[last.membership].customer_id = last.customer
        /\ last.customer \in 1..Len(customers)
        /\ customers[last.customer].status
        /\ customers[last.customer].gym_id = last.gym

\* a request whose customer message was rejected, and one that found no handle
C11_Witness ==
    /\ MessagingStep(last)
    /\ last.error \in {ErrSend, ErrNotInit}
    /\ last.status = 200
    /\ Len(memberships) >= 2

\* C12 as claimed: the outcome of the customer send does not determine the
\* owner send: after a rejected customer send the owner message is still
\* attempted (the request goes on to sendMessage to the owner).
C12_SendsIndependent ==
    (last.op = "membershipCustomerSend" /\ ~last.custSent) =>
        /\ last.id \in DOMAIN mreqs
        /\ mreqs[last.id].pc = "ownerSend"
(* ------------------------- OTP claims, continued ----------------------- *)

\* the steps of the two OTP routes
OtpStep(e) ==
    e.op \in {"issueFindOwner", "issueFindExisting", "issueSet", "issueDone",
              "validateGet", "validateUpdate", "validateDel", "validateDone"}

\* C13 as claimed: every error answer of POST /request_phone_change and
\* PUT /update_phone_number (no handle, rejected send, no pending request,
\* wrong code, expired record, number in use) has a 4xx status.
C13_ErrorsAre4xx ==
    (OtpStep(last) /\ last.status # 0 /\ last.status # 200) =>
        last.status \in 400..499

\* the answers POST /request_phone_change can give: none contains the code
IssueAnswers ==
    {<<200, MsgSent>>, <<400, ErrInUse>>, <<NextErrorStatus, ErrNotInit>>,
     <<NextErrorStatus, ErrSend>>}

\* C14: the only message whose text contains a code is the one the issue
\* hands over with the code it just stored, and it is addressed to the
\* owner's phone number as the request read it (the owner's number in the
\* table when no other request of that owner ran meanwhile), so not to the
\* new number unless the owner asked for the number they already have; the
\* answer of the issue is one of four fixed answers, the same for every
\* generated code; the confirmation of a validate contains no code and is
\* addressed to the new number, which is the owner's number by then.
C14_CodeOnlyToCurrent ==
    /\ (last.sock # 0 /\ last.text # 0) =>
          /\ last.op = "issueSet"
          /\ last.text = last.code
          /\ last.text = redis[last.r].otp
          /\ last.to = reqs[last.id].cur
          /\ last.clean => last.to = owners[last.r]
          /\ (last.clean /\ last.phone # owners[last.r]) => last.to # last.phone
    /\ (last.op \in {"issueSet", "issueDone"} /\ last.status # 0) =>
          <<last.status, last.error>> \in IssueAnswers
    /\ (last.op = "validateDel" /\ last.sock # 0) =>
          /\ last.text = 0
          /\ last.to = last.rec.new_phone_number
          /\ last.clean => last.to = owners[last.r]

\* a second issue, after a validate changed the number: the code goes to the
\* changed number, not to the number asked for
C14_Witness ==
    /\ last.op = "issueSet"
    /\ last.sock # 0
    /\ last.clean
    /\ last.to = owners[last.r]
    /\ owners[last.r] # last.r
    /\ last.phone # last.to

\* C15 as claimed: POST /membership of index.js with all required fields, for
\* a customer that exists under (gym_owner_id, gym_id), is never refused: it
\* goes on to update the customer, whatever the start_date and the
\* customer's current end_date.
C15_ExistingCustomerUpdated ==
    (last.op = "indexMembershipFind" /\ last.customer # 0) =>
        /\ last.status = 0
        /\ last.id \in DOMAIN mreqs
        /\ mreqs[last.id].pc = "write"
        /\ mreqs[last.id].customer = last.customer

(* --------------------- session manager claims, continued --------------- *)

\* C16 as claimed: under fair scheduling every close with a non-terminal
\* reason is eventually followed by a new socket (as far as the bounds of the
\* model leave room for one more socket and one more reconnect delay).
C16_EventuallyReconnects ==
    \A n \in 1..(MaxSockets - 1) :
        [](( /\ last.op = "close"
             /\ last.status # loggedOut
             /\ Len(sockets) = n
             /\ now + ReconnectDelay \in SessionInstants )
           => <>(Len(sockets) > n))

\* a reconnect failed: an initializeWhatsAppClient() call made by a timer
\* threw. The calls made are the one at boot and one per timer fired; a timer
\* exists only after a socket closed, so only after the call at boot returned.
FailedReconnects ==
    IF reconnects = 0 THEN 0 ELSE 1 + reconnects - initsOk - inits

\* C21: once an initializeWhatsAppClient() call made by the reconnect timer
\* has failed before a socket was created, in every later state no reconnect
\* timer is pending and no initializeWhatsAppClient() call is in flight (no
\* further reconnect is scheduled or made: the reconnect calls stay as many
\* as the sockets that followed the first, plus the failed one), no socket is
\* live, and getWhatsAppClient() returns the socket created last, which is
\* the one whose close started the failed reconnect.
C21_FailedReconnectIsFinal ==
    FailedReconnects > 0 =>
        /\ FailedReconnects = 1
        /\ timers = <<>>
        /\ inits = 0
        /\ LiveSockets = {}
        /\ reconnects = Len(sockets)
        /\ closesNT = reconnects
        /\ getWhatsAppClient.ok
        /\ getWhatsAppClient.handle = Len(sockets)
        /\ sockets[getWhatsAppClient.handle] = "closed"

\* the second reconnect failed, and time has passed since
C21_Witness ==
    /\ FailedReconnects > 0
    /\ Len(sockets) = 2
    /\ last.op = "none"
    /\ now >= 3 * ReconnectDelay

\* C17 as claimed: in every state the credentials on disk are the latest ones
\* the session holds: a rotation is on disk by the time its event is handled,
\* so a crash or a reconnect in any state finds the rotated credentials.
C17_PersistedIsLatest == credsDisk = credsMem

(* ------------------------- OTP claims, two owners ---------------------- *)

\* C18: a step of an issue or a validate of requester r leaves the record
\* and the contact of every other owner as they were; the record a validate
\* of r reads was stored by an issue of r; a contact changes only by the
\* update of a validate of its owner, to the number of the record that
\* validate read under its own key, whose code is the one it submitted; the
\* set of an issue of r writes the key of r and the delete of a validate of
\* r deletes the key of r.
C18_Step ==
    LET e == last' IN
    /\ owners' # owners => e.op = "validateUpdate"
    /\ redis' # redis => e.op \in {"issueSet", "validateDel"}
    /\ OtpStep(e) =>
          \A b \in Owners : b # e.r =>
              (redis'[b] = redis[b] /\ owners'[b] = owners[b])
    /\ (e.op = "validateGet" /\ e.rec # None) =>
          /\ e.rec = redis[e.r]
          /\ hist[e.rec.gen].r = e.r
    /\ (e.op = "validateUpdate" /\ e.status = 0) =>
          /\ owners'[e.r] = e.rec.new_phone_number
          /\ hist[e.rec.gen].r = e.r
          /\ hist[e.rec.gen].otp = e.code
    /\ e.op = "issueSet" =>
          /\ redis'[e.r].gen = e.id
          /\ hist'[e.id].r = e.r
    /\ e.op = "validateDel" => redis'[e.r] = None

C18_Isolation == [][C18_Step]_vars

\* a validate of owner 2 applies the record of owner 2 while a record of
\* owner 1, stored before it, stays pending
C18_Witness ==
    /\ last.op = "validateDel"
    /\ last.r = MaxOwners
    /\ owners[last.r] = last.rec.new_phone_number
    /\ owners[last.r] # last.r
    /\ redis[last.r] = None
    /\ \E a \in Owners :
          /\ a # last.r
          /\ redis[a] # None
          /\ redis[a].gen < last.rec.gen
          /\ owners[a] = a

\* C19: no two owners have the same phone number, in any reachable state: an
\* update that would give an owner the number of another owner is rejected
\* (gym_owner.phone_number is unique) and changes nothing.
C19_ContactsDistinct ==
    /\ \A a, b \in Owners : a # b => owners[a] # owners[b]
    /\ (last.op = "validateUpdate" /\ last.status = 0) =>
          /\ owners[last.r] = last.rec.new_phone_number
          /\ \A b \in Owners : b # last.r => owners[b] # last.rec.new_phone_number
    /\ (last.op = "validateUpdate" /\ last.status # 0) =>
          /\ last.error = ErrUnique
          /\ \E b \in Owners : b # last.r /\ owners[b] = last.rec.new_phone_number

\* two owners were issued a code for the same new number; the first validate
\* took the number and the second was rejected
C19_Witness ==
    /\ last.op = "validateUpdate"
    /\ last.error = ErrUnique
    /\ owners[last.r] # last.rec.new_phone_number
    /\ \E b \in Owners :
          /\ b # last.r
          /\ owners[b] = last.rec.new_phone_number
          /\ owners[b] # b

(* ---------------------- OTP claims, failing delete --------------------- *)

\* C20: a validate whose code matched runs update, delete, send in that
\* order and undoes nothing. The update commits the new number and leaves
\* the record; the delete is called only after it and the send only after
\* the delete. When the delete fails the answer is 500, the contact stays
\* changed and the record stays stored (a validate with the same code is
\* accepted again while the record is live). When the handle is missing
\* after the delete, or the send is rejected, the answer is 500 although the
\* contact is changed and the record deleted; the answer is 200 only when the
\* send succeeded.
C20_Step ==
    LET e == last'
        p == e.rec.new_phone_number
    IN
    /\ (e.op = "validateUpdate" /\ e.status = 0) =>
          /\ reqs[e.id].pc = "update"
          /\ owners'[e.r] = p
          /\ redis' = redis
          /\ reqs'[e.id].pc = "del"
          /\ e.sock = 0
    /\ e.op = "validateDel" =>
          /\ reqs[e.id].pc = "del"
          /\ reqs[e.id].cur = p
          /\ e.clean => owners[e.r] = p
          /\ owners' = owners
          /\ redis'[e.r] = None
          /\ IF client = 0
             THEN e.status = 500 /\ e.error = ErrNotInit /\ e.sock = 0
                  /\ e.id \notin DOMAIN reqs'
             ELSE e.status = 0 /\ e.sock = client /\ reqs'[e.id].pc = "send"
    /\ e.op = "validateDelFailed" =>
          /\ reqs[e.id].pc = "del"
          /\ e.status = 500
          /\ e.id \notin DOMAIN reqs'
          /\ UNCHANGED <<owners, redis>>
          /\ e.clean => (owners[e.r] = p /\ redis[e.r] = e.rec)
    /\ e.op = "validateDone" =>
          /\ reqs[e.id].pc = "send"
          /\ UNCHANGED <<owners, redis>>
          /\ e.clean => (owners[e.r] = p /\ redis[e.r] = None)
          /\ IF sockets[reqs[e.id].wa] = "open"
             THEN e.status = 200 /\ e.phone = p
             ELSE e.status = 500 /\ e.error = ErrSend
    /\ (e.op = "validateGet" /\ e.clean /\ redis[e.r] # None
            /\ now <= redis[e.r].expireAt /\ e.code = redis[e.r].otp) =>
          /\ e.status = 0
          /\ reqs'[e.id].rec = redis[e.r]

C20_NoRollback == [][C20_Step]_vars

\* after a failed delete the same code was accepted again and applied a
\* second time
C20_Witness ==
    /\ last.op = "validateUpdate"
    /\ last.status = 0
    /\ last.clean
    /\ hist[last.rec.gen].applied = 2
    /\ redis[last.r] = last.rec
    /\ owners[last.r] = last.rec.new_phone_number
    /\ owners[last.r] # last.r

(* -------------------- membership claims, failing writes ---------------- *)

\* C22: POST /membership writes the customer before it creates the
\* membership transaction, and the two writes are not one transaction: the
\* step that writes the customer (creates it, or sets it active with the new
\* end_date) leaves the membership table alone and the request has created
\* no transaction yet; the step that creates the transaction finds the
\* customer row already written and active; and when membership.create
\* rejects, the handler answers 500 and both tables stay as they are, the
\* customer row still active with the end_date it was given. (That two
\* concurrent requests for a (gym_owner_id, gym_id) without a row both pass
\* the existence check and both call create is the state C22_Witness reaches.)
C22_Step ==
    LET e == last' IN
    /\ (e.op = "membershipWrite" /\ e.status = 0) =>
          /\ memberships' = memberships
          /\ mreqs[e.id].membership = 0
          /\ mreqs'[e.id].pc = "membership"
          /\ e.customer \in 1..Len(customers')
          /\ customers'[e.customer].status
          /\ customers'[e.customer].end_date = mreqs[e.id].end
    /\ e.op = "membershipCreate" =>
          /\ customers' = customers
          /\ e.customer \in 1..Len(customers)
          /\ customers[e.customer].status
          /\ Len(memberships') = Len(memberships) + 1
          /\ memberships'[e.membership].customer_id = e.customer
    /\ e.op = "membershipCreateFailed" =>
          /\ e.status = 500
          /\ customers' = customers
          /\ memberships' = memberships
          /\ e.customer \in 1..Len(customers')
          /\ customers'[e.customer].status
          /\ e.id \notin DOMAIN mreqs'

C22_NotTransactional == [][C22_Step]_vars

\* the customer the table started with is active with an end_date later than
\* the one it had and has no transaction, after a request whose
\* membership.create failed; and a request that found no customer has just
\* had its customer.create refused because a concurrent request, which found
\* none either, created the row first
C22_Witness ==
    /\ customers[1].status
    /\ customers[1].end_date > InitCustomers[1].end_date
    /\ \A m \in 1..Len(memberships) : memberships[m].customer_id # 1
    /\ last.op = "membershipWrite"
    /\ last.error = ErrCustomerUnique
    /\ last.status = 500

====
